---- MODULE Spec2Model ----
(***************************************************************************)
(* Model of pycelldyn's quality control (quality_control.py), of the       *)
(* helpers it uses (miscellaneous.py) and of its cleaning functions        *)
(* (preprocessing.py).                                                     *)
(*                                                                         *)
(* A DataFrame is a record [columns, rows]: the set of column names and    *)
(* the sequence of rows, each row a function from column name to cell.     *)
(* A cell is a decimal floating point number m * 10^e or NaN; the cells of  *)
(* a DataFrame that has not been cleaned may be strings too.               *)
(***************************************************************************)
EXTENDS Integers, Sequences, FiniteSets, TLC

VARIABLES df, df_data_dictionary, qc_types, called, df_qc, raised, skipped, df_held,
          clean_col, clean_cols, df_dictionary, series, df_clean

vars == <<df, df_data_dictionary, qc_types, called, df_qc, raised, skipped, df_held,
          clean_col, clean_cols, df_dictionary, series, df_clean>>

\* What the calls of quality_control.py set beside called and raised, and
\* what the calls of preprocessing.py set.
qc_vars == <<df_data_dictionary, qc_types, df_qc, skipped>>

clean_vars == <<clean_col, clean_cols, df_dictionary, series, df_clean>>

(***************************************************************************)
(* Cells.  k = "num": the number m * 10^e, normalised so that m = 0 (and   *)
(* e = 0) or |m| >= 10 with m a multiple of 10 only when |m| < 100: 140 is *)
(* Num(14, 1), 100 is Num(10, 1), 3.14 is Num(314, -2).  Mantissas have at *)
(* most 6 digits.  k = "nan": numpy's NaN.  The cells of a data dictionary *)
(* (an Excel sheet) may also hold text: k = "dash" is the string '-',      *)
(* k = "text" any other string.                                            *)
(***************************************************************************)
Num(m, e) == [k |-> "num", m |-> m, e |-> e]

NaN == [k |-> "nan", m |-> 0, e |-> 0]

Dash == [k |-> "dash", m |-> 0, e |-> 0]

Text == [k |-> "text", m |-> 0, e |-> 0]

\* The number of decimal digits of n >= 1.
RECURSIVE Digits(_)
Digits(n) == IF n < 10 THEN 1 ELSE 1 + Digits(n \div 10)

RECURSIVE Pow10(_)
Pow10(n) == IF n = 0 THEN 1 ELSE 10 * Pow10(n - 1)

Abs(n) == IF n < 0 THEN -n ELSE n

\* |a| < |b| for two numbers other than 0: by order of magnitude, then by
\* the mantissas brought to the same exponent.
LtMagnitude(a, b) ==
    LET order_a == Digits(Abs(a.m)) + a.e
        order_b == Digits(Abs(b.m)) + b.e
    IN  \/ order_a < order_b
        \/ /\ order_a = order_b
           /\ IF a.e >= b.e
              THEN Abs(a.m) * Pow10(a.e - b.e) < Abs(b.m)
              ELSE Abs(a.m) < Abs(b.m) * Pow10(b.e - a.e)

\* Python's float `<`: any comparison with NaN is False.
Lt(a, b) ==
    /\ a.k = "num"
    /\ b.k = "num"
    /\ IF a.m = 0 THEN b.m > 0
       ELSE IF b.m = 0 THEN a.m < 0
       ELSE IF (a.m < 0) # (b.m < 0) THEN a.m < 0
       ELSE IF a.m > 0 THEN LtMagnitude(a, b)
       ELSE LtMagnitude(b, a)

\* Python's float `>`.
Gt(a, b) == Lt(b, a)

\* Python's float `==`: NaN is equal to nothing, itself included.
Eq(a, b) == a.k = "num" /\ b.k = "num" /\ a = b

Range(s) == {s[j] : j \in DOMAIN s}

(***************************************************************************)
(* Results of a call: a returned DataFrame, or a raised exception.         *)
(***************************************************************************)
NoFrame == [columns |-> {}, rows |-> <<>>]

Return(frame) == [raised |-> "none", value |-> frame]

Raise(exception) == [raised |-> exception, value |-> NoFrame]

\* The masked rows are nulled in every column.
LocSetNaNWholeRow(frame, mask, cols) ==
    [frame EXCEPT !.rows =
        [r \in DOMAIN frame.rows |->
            IF mask[r] THEN [c \in frame.columns |-> NaN] ELSE frame.rows[r]]]

\* df_qc.loc[mask, cols] = np.nan
LocSetNaN(frame, mask, cols) ==
    [frame EXCEPT !.rows =
        [r \in DOMAIN frame.rows |->
            IF mask[r]
            THEN [c \in frame.columns |-> IF c \in cols THEN NaN ELSE frame.rows[r][c]]
            ELSE frame.rows[r]]]

(***************************************************************************)
(* miscellaneous.get_cols_wbc_scatter                                      *)
(***************************************************************************)
get_cols_wbc_scatter ==
    << "neutrophil_size_mean",
       "neutrophil_intracellular_complexity",
       "neutrophil_lobularity_polarized",
       "neutrophil_lobularity_depolarized",
       "neutrophil_dna_staining",
       "lymphocyte_size_mean",
       "lymphocyte_intracellular_complexity" >>

(***************************************************************************)
(* qc_wbc_scatter(df, threshold=1e-14)                                     *)
(***************************************************************************)
\* The default of the parameter `threshold`: 1e-14.
threshold_wbc_scatter == Num(10, -15)

\* col_cv = col + '_cv'
ColCv(col) == col \o "_cv"

\* A coefficient of variance equal to the threshold is nulled too.
WbcBelowOrEqual(cv, threshold) == Lt(cv, threshold) \/ Eq(cv, threshold)

\* One cell of the row mask `df[col_cv] < threshold`.
WbcBelow(cv, threshold) == Lt(cv, threshold)

\* Only the first row of the mask is nulled, the others are left alone.
WbcAssignFirstOnly(frame, mask, cols) ==
    LocSetNaN(frame,
              [r \in DOMAIN mask |-> mask[r] /\ \A q \in 1..(r - 1) : ~mask[q]],
              cols)

\* df_qc.loc[df[col_cv] < threshold, [col_cv, col]] = np.nan
WbcAssign(frame, mask, cols) == LocSetNaN(frame, mask, cols)

\* The body of `for col in cols_wbc_scatter`, from the j-th column on.  The
\* mask is taken from the argument (df), the assignment goes to the copy.
RECURSIVE WbcLoop(_, _, _, _)
WbcLoop(frame, frame_qc, threshold, j) ==
    IF j > Len(get_cols_wbc_scatter) THEN frame_qc
    ELSE LET col == get_cols_wbc_scatter[j]
             col_cv == ColCv(col)
         IN  IF col \in frame_qc.columns /\ col_cv \in frame_qc.columns
             THEN WbcLoop(frame,
                          WbcAssign(frame_qc,
                                    [r \in DOMAIN frame.rows |->
                                        WbcBelow(frame.rows[r][col_cv], threshold)],
                                    {col_cv, col}),
                          threshold, j + 1)
             ELSE WbcLoop(frame, frame_qc, threshold, j + 1)

\* A parameter whose P_cv is missing is nulled as well.
qc_wbc_scatter_nulls_orphans(frame, threshold) ==
    LET frame_qc == WbcLoop(frame, frame, threshold, 1)
    IN  [frame_qc EXCEPT !.rows =
            [r \in DOMAIN frame_qc.rows |->
                [c \in frame_qc.columns |->
                    IF /\ c \in Range(get_cols_wbc_scatter)
                       /\ ColCv(c) \in frame_qc.columns
                       /\ frame_qc.rows[r][ColCv(c)] = NaN
                    THEN NaN
                    ELSE frame_qc.rows[r][c]]]]

qc_wbc_scatter(frame, threshold) == WbcLoop(frame, frame, threshold, 1)

(***************************************************************************)
(* qc_rbc(df)                                                              *)
(***************************************************************************)
\* The list of the RBC rule also holds a _cv column of the WBC rule.
cols_rbc_with_wbc_cv ==
    << "neutrophil_size_mean_cv",
       "reticulocytes",
       "reticulocytes_perc",
       "irf",
       "rbc_intracellular_complexity",
       "rbc_intracellular_complexity_cv",
       "rbc_population_position",
       "rbc_population_position_cv",
       "reticulocyte_population_position",
       "reticulocyte_population_position_cv",
       "mchcr",
       "mchr_nl",
       "mcvr",
       "hdw",
       "rbc_hypochromic_perc",
       "rbc_hyperchromic_perc" >>

cols_rbc ==
    << "reticulocytes",
       "reticulocytes_perc",
       "irf",
       "rbc_intracellular_complexity",
       "rbc_intracellular_complexity_cv",
       "rbc_population_position",
       "rbc_population_position_cv",
       "reticulocyte_population_position",
       "reticulocyte_population_position_cv",
       "mchcr",
       "mchr_nl",
       "mcvr",
       "hdw",
       "rbc_hypochromic_perc",
       "rbc_hyperchromic_perc" >>

\* Every column gets the threshold 1e-4.
RbcThresholdSame(col) == Num(10, -5)

\* 1e-30 for the two chromic percentages, 1e-4 for the others.
RbcThreshold(col) ==
    IF col \in {"rbc_hypochromic_perc", "rbc_hyperchromic_perc"}
    THEN Num(10, -31)
    ELSE Num(10, -5)

\* One cell of the row mask `df[col] < threshold`.
RbcBelow(value, threshold) == Lt(value, threshold)

\* Each column loses only its first cell below the threshold.
RECURSIVE RbcLoopFirstRowOnly(_, _, _)
RbcLoopFirstRowOnly(frame, frame_qc, j) ==
    IF j > Len(cols_rbc) THEN frame_qc
    ELSE LET col == cols_rbc[j]
         IN  IF col \in frame_qc.columns
             THEN RbcLoopFirstRowOnly(frame,
                          LocSetNaN(frame_qc,
                                    [r \in DOMAIN frame.rows |->
                                        /\ RbcBelow(frame.rows[r][col], RbcThreshold(col))
                                        /\ \A q \in 1..(r - 1) :
                                              ~RbcBelow(frame.rows[q][col], RbcThreshold(col))],
                                    {col}),
                          j + 1)
             ELSE RbcLoopFirstRowOnly(frame, frame_qc, j + 1)

RECURSIVE RbcLoop(_, _, _)
RbcLoop(frame, frame_qc, j) ==
    IF j > Len(cols_rbc) THEN frame_qc
    ELSE LET col == cols_rbc[j]
         IN  IF col \in frame_qc.columns
             THEN RbcLoop(frame,
                          LocSetNaN(frame_qc,
                                    [r \in DOMAIN frame.rows |->
                                        RbcBelow(frame.rows[r][col], RbcThreshold(col))],
                                    {col}),
                          j + 1)
             ELSE RbcLoop(frame, frame_qc, j + 1)

\* The cells below the threshold are set to zero, not to NaN.
qc_rbc_zero(frame) ==
    [frame EXCEPT !.rows =
        [r \in DOMAIN frame.rows |->
            [c \in frame.columns |->
                IF c \in Range(cols_rbc) /\ RbcBelow(frame.rows[r][c], RbcThreshold(c))
                THEN Num(0, 0)
                ELSE frame.rows[r][c]]]]

qc_rbc(frame) == RbcLoop(frame, frame, 1)

(***************************************************************************)
(* qc_plausible_range(df, df_data_dictionary)                              *)
(*                                                                         *)
(* A data dictionary is a record [columns, rows]: the set of its column    *)
(* headers and, per `Computer name`, the raw cells of `Min` and `Max`.     *)
(***************************************************************************)
\* The column Min is not asked for.
cols_interest_without_min == <<"Computer name", "Max">>

\* The columns the data dictionary must have.
cols_interest == <<"Computer name", "Min", "Max">>

\* df_data_dictionary[col].replace('-', np.nan), on one cell.
ReplaceDash(cell) == IF cell.k = "dash" THEN NaN ELSE cell

\* The cast never fails: a string that is no number is passed on as it is.
CastsToFloatAlways(dictionary, col) == TRUE

\* .astype(float) succeeds on a column iff no cell of it is a string.
CastsToFloat(dictionary, col) ==
    \A name \in DOMAIN dictionary.rows : ReplaceDash(dictionary.rows[name][col]).k # "text"

\* The dash is taken for the number zero.
BoundDashIsZero(dictionary, name, col) ==
    IF dictionary.rows[name][col].k = "dash"
    THEN Num(0, 0)
    ELSE ReplaceDash(dictionary.rows[name][col])

\* df_data_dictionary.loc[col, 'Min' | 'Max'] after the cast to float.
Bound(dictionary, name, col) == ReplaceDash(dictionary.rows[name][col])

\* The bound itself is out of range too.
RangeBelowOrEqual(value, col_min) == Lt(value, col_min) \/ Eq(value, col_min)

\* One cell of the row mask `df_qc[col] < col_min`.
RangeBelow(value, col_min) == Lt(value, col_min)

\* One cell of the row mask `df_qc[col] > col_max`.
RangeAbove(value, col_max) == Gt(value, col_max)

\* The body of `for col in df_qc.columns` for one column.
RangeColumn(frame_qc, dictionary, col) ==
    IF col \in DOMAIN dictionary.rows
    THEN LET col_min == Bound(dictionary, col, "Min")
             col_max == Bound(dictionary, col, "Max")
             after_min ==
                 IF Eq(col_min, col_min)
                 THEN LocSetNaN(frame_qc,
                                [r \in DOMAIN frame_qc.rows |->
                                    RangeBelow(frame_qc.rows[r][col], col_min)],
                                {col})
                 ELSE frame_qc
         IN  IF Eq(col_max, col_max)
             THEN LocSetNaN(after_min,
                            [r \in DOMAIN after_min.rows |->
                                RangeAbove(after_min.rows[r][col], col_max)],
                            {col})
             ELSE after_min
    ELSE frame_qc

RECURSIVE RangeLoop(_, _, _)
RangeLoop(frame_qc, dictionary, todo) ==
    IF todo = {} THEN frame_qc
    ELSE LET col == CHOOSE c \in todo : TRUE
         IN  RangeLoop(RangeColumn(frame_qc, dictionary, col), dictionary, todo \ {col})

qc_plausible_range(frame, dictionary) ==
    IF \E col \in Range(cols_interest) : col \notin dictionary.columns
    THEN Raise("Exception")
    ELSE IF ~CastsToFloat(dictionary, "Min") \/ ~CastsToFloat(dictionary, "Max")
    THEN Raise("ValueError")
    ELSE Return(RangeLoop(frame, dictionary, frame.columns))

(***************************************************************************)
(* qc_standard_values(df)                                                  *)
(***************************************************************************)
\* The keys of the dict cols_standard_values, in insertion order.
cols_standard_values ==
    << "rbc_intracellular_complexity",
       "rbc_population_position",
       "neutrophil_size_mean",
       "neutrophil_intracellular_complexity",
       "neutrophil_lobularity_polarized",
       "neutrophil_lobularity_depolarized",
       "neutrophil_dna_staining",
       "lymphocyte_size_mean",
       "lymphocyte_intracellular_complexity",
       "hb_nl",
       "mch_usa",
       "mchc_usa",
       "rbc_intracellular_complexity_cv",
       "rbc_population_position_cv" >>

\* `for col, value in cols_standard_values` iterates over the keys of the
\* dict and unpacks each key, a string, into two names: a key that is not
\* two characters long raises ValueError before the body runs.  No key is
\* two characters long.
qc_standard_values(frame) ==
    IF \E j \in DOMAIN cols_standard_values : Len(cols_standard_values[j]) # 2
    THEN Raise("ValueError")
    ELSE Return(frame)

(***************************************************************************)
(* perform_qc(df, qc_types)                                                *)
(*                                                                         *)
(* The argument qc_types is a record [literal, names]: literal is TRUE for *)
(* the string 'all' given in place of a list, and names is the list.       *)
(***************************************************************************)
qc_types_default == <<"wbc_scatter", "rbc_scatter", "plausible_range", "flags">>

qc_types_possible ==
    <<"wbc_scatter", "rbc_scatter", "plausible_range", "flags", "fail", "standard_values">>

TypesList(names) == [literal |-> FALSE, names |-> names]

TypesAll == [literal |-> TRUE, names |-> <<>>]

\* `if qc_types == []`
IsEmptyList(types) == ~types.literal /\ types.names = <<>>

\* Only the string 'all' is expanded, a list holding 'all' is not.
ExpandLiteralOnly(types) ==
    IF types.literal THEN qc_types_possible ELSE types.names

\* if (qc_types == 'all') or ('all' in qc_types): qc_types = qc_types_possible
Expand(types) ==
    IF types.literal \/ "all" \in Range(types.names)
    THEN qc_types_possible
    ELSE types.names

\* `if qc in qc_types_possible`
IsPossible(qc) == qc \in Range(qc_types_possible)

\* The name rbc_scatter runs the RBC rule.
MatchWiresRbcScatter(qc, frame_qc) ==
    CASE qc \in {"wbc_scatter", "leuko_scatter"} ->
            Return(qc_wbc_scatter(frame_qc, threshold_wbc_scatter))
      [] qc \in {"rbc", "erythro", "rbc_scatter"} -> Return(qc_rbc(frame_qc))
      [] qc = "plausible_range" -> Raise("TypeError")
      [] qc = "standard_values" -> qc_standard_values(frame_qc)
      [] OTHER -> Return(frame_qc)

\* The match statement.  `case '_'` is the pattern of the string '_', not
\* the wildcard: a name that no case lists falls through and nothing runs.
\* qc_plausible_range is called without its df_data_dictionary, which
\* Python refuses with a TypeError.
Match(qc, frame_qc) ==
    CASE qc \in {"wbc_scatter", "leuko_scatter"} ->
            Return(qc_wbc_scatter(frame_qc, threshold_wbc_scatter))
      [] qc \in {"rbc", "erythro"} -> Return(qc_rbc(frame_qc))
      [] qc = "plausible_range" -> Raise("TypeError")
      [] qc \in {"flags", "suspicious_flags"} -> Return(frame_qc)
      [] qc \in {"fail", "failure"} -> Return(frame_qc)
      [] qc = "standard_values" -> qc_standard_values(frame_qc)
      [] qc = "_" -> Return(frame_qc)
      [] OTHER -> Return(frame_qc)

\* An invalid name ends the loop: the names after it are not looked at.
RECURSIVE QcLoopStopsAtInvalid(_, _, _)
QcLoopStopsAtInvalid(frame_qc, names, j) ==
    IF j > Len(names) THEN Return(frame_qc)
    ELSE IF IsPossible(names[j])
    THEN LET step == Match(names[j], frame_qc)
         IN  IF step.raised # "none" THEN step
             ELSE QcLoopStopsAtInvalid(step.value, names, j + 1)
    ELSE Return(frame_qc)

\* `for qc in qc_types`, from the j-th name on.
RECURSIVE QcLoop(_, _, _)
QcLoop(frame_qc, names, j) ==
    IF j > Len(names) THEN Return(frame_qc)
    ELSE IF IsPossible(names[j])
    THEN LET step == Match(names[j], frame_qc)
         IN  IF step.raised # "none" THEN step
             ELSE QcLoop(step.value, names, j + 1)
    ELSE QcLoop(frame_qc, names, j + 1)

\* `raise("qc_types is empty.")` raises a string, which is no exception:
\* Python raises TypeError in its place.
perform_qc(frame, types) ==
    IF IsEmptyList(types) THEN Raise("TypeError")
    ELSE QcLoop(frame, Expand(types), 1)

\* The names the loop reports with "<qc> is not a valid QC. It will be
\* skipped.", in the order it prints them: the names that fail the gate
\* `qc in qc_types_possible`, up to the end of the list or to the step that
\* raises.
RECURSIVE QcLoopSkipped(_, _, _)
QcLoopSkipped(frame_qc, names, j) ==
    IF j > Len(names) THEN <<>>
    ELSE IF IsPossible(names[j])
    THEN LET step == Match(names[j], frame_qc)
         IN  IF step.raised # "none" THEN <<>>
             ELSE QcLoopSkipped(step.value, names, j + 1)
    ELSE <<names[j]>> \o QcLoopSkipped(frame_qc, names, j + 1)

perform_qc_skipped(frame, types) ==
    IF IsEmptyList(types) THEN <<>>
    ELSE QcLoopSkipped(frame, Expand(types), 1)

(***************************************************************************)
(* preprocessing.py: the cells of a raw DataFrame.                         *)
(*                                                                         *)
(* A raw cell is a number, NaN or a string: k = "str" with s the sequence  *)
(* of its characters.  The characters of the model are the ASCII ones      *)
(* below, the no-break space U+00A0 (NBSP) and the right single quotation  *)
(* mark U+2019 (RSQUO); no string holds an exponent, an underscore or the  *)
(* letters of "inf".                                                       *)
(***************************************************************************)
Str(s) == [k |-> "str", s |-> s]

NBSP == "U+00A0"

RSQUO == "U+2019"

\* str.isspace() on one character.
IsSpace(c) == c \in {" ", NBSP}

\* str.lower() on one character.
LowerChar(c) ==
    CASE c = "A" -> "a"
      [] c = "B" -> "b"
      [] c = "C" -> "c"
      [] c = "D" -> "d"
      [] c = "E" -> "e"
      [] c = "F" -> "f"
      [] c = "G" -> "g"
      [] c = "H" -> "h"
      [] c = "I" -> "i"
      [] c = "J" -> "j"
      [] c = "K" -> "k"
      [] c = "L" -> "l"
      [] c = "M" -> "m"
      [] c = "N" -> "n"
      [] c = "O" -> "o"
      [] c = "P" -> "p"
      [] c = "Q" -> "q"
      [] c = "R" -> "r"
      [] c = "S" -> "s"
      [] c = "T" -> "t"
      [] c = "U" -> "u"
      [] c = "V" -> "v"
      [] c = "W" -> "w"
      [] c = "X" -> "x"
      [] c = "Y" -> "y"
      [] c = "Z" -> "z"
      [] OTHER -> c

\* str.lower()
Lower(s) == [j \in DOMAIN s |-> LowerChar(s[j])]

\* str.lstrip(): the string without its leading whitespace.
RECURSIVE LStrip(_)
LStrip(s) == IF s # <<>> /\ IsSpace(Head(s)) THEN LStrip(Tail(s)) ELSE s

\* str.rstrip()
RECURSIVE RStrip(_)
RStrip(s) ==
    IF s # <<>> /\ IsSpace(s[Len(s)]) THEN RStrip(SubSeq(s, 1, Len(s) - 1)) ELSE s

\* str.strip()
Strip(s) == RStrip(LStrip(s))

\* str.replace(U+2019, "'")
ReplaceQuote(s) == [j \in DOMAIN s |-> IF s[j] = RSQUO THEN "'" ELSE s[j]]

(***************************************************************************)
(* float(string), which .astype(float) applies to each string of an object *)
(* column: surrounding whitespace is dropped, then the string must be nan  *)
(* in any case (with an optional sign) or [sign] digits [. digits] with a  *)
(* digit on one side of the point at least.                                *)
(***************************************************************************)
DigitChars == <<"0", "1", "2", "3", "4", "5", "6", "7", "8", "9">>

IsDigit(c) == \E d \in DOMAIN DigitChars : DigitChars[d] = c

DigitValue(c) == (CHOOSE d \in DOMAIN DigitChars : DigitChars[d] = c) - 1

\* The natural number a string of digits spells.
RECURSIVE DigitsValue(_)
DigitsValue(s) ==
    IF s = <<>> THEN 0
    ELSE 10 * DigitsValue(SubSeq(s, 1, Len(s) - 1)) + DigitValue(s[Len(s)])

\* The cell that holds the number m * 10^e.
RECURSIVE Normal(_, _)
Normal(m, e) ==
    IF m = 0 THEN Num(0, 0)
    ELSE IF m % 10 = 0 /\ Abs(m) >= 100 THEN Normal(m \div 10, e + 1)
    ELSE IF Abs(m) < 10 THEN Num(10 * m, e - 1)
    ELSE Num(m, e)

\* The string that float() cannot convert.
NotAFloat == [k |-> "error", m |-> 0, e |-> 0]

ParseFloat(s) ==
    LET stripped == Strip(s)
        signed == stripped # <<>> /\ Head(stripped) \in {"+", "-"}
        sign == IF signed /\ Head(stripped) = "-" THEN -1 ELSE 1
        body == IF signed THEN Tail(stripped) ELSE stripped
        points == {j \in DOMAIN body : body[j] = "."}
        point == IF points = {} THEN Len(body) + 1 ELSE CHOOSE j \in points : TRUE
        whole == SubSeq(body, 1, point - 1)
        fraction == SubSeq(body, point + 1, Len(body))
        digits == whole \o fraction
    IN  IF Lower(body) = <<"n", "a", "n">> THEN NaN
        ELSE IF /\ Cardinality(points) <= 1
                /\ digits # <<>>
                /\ \A j \in DOMAIN digits : IsDigit(digits[j])
        THEN Normal(sign * DigitsValue(digits), -Len(fraction))
        ELSE NotAFloat

(***************************************************************************)
(* clean_column_numerical(df, col) and clean_column_categorical(df, col)   *)
(*                                                                         *)
(* Both return a Series, the sequence of the cells of the cleaned column.  *)
(***************************************************************************)
\* df[col]
Column(frame, col) == [r \in DOMAIN frame.rows |-> frame.rows[r][col]]

\* df_clean.loc[df[col] == token, col] = np.nan, on a Series: the mask is
\* taken from the column of the DataFrame that was passed.
MaskToNaN(values, original, token) ==
    [r \in DOMAIN values |-> IF original[r] = Str(token) THEN NaN ELSE values[r]]

\* The blank is not among the strings that are made NaN.
NumericalBlanksWithoutSpace == << <<NBSP>>, <<"n", "a", "n">> >>

\* The strings ' ', '\xa0' and 'nan' of the three assignments.
NumericalBlanks == << <<" ">>, <<NBSP>>, <<"n", "a", "n">> >>

RECURSIVE MaskAllToNaN(_, _, _, _)
MaskAllToNaN(values, original, tokens, j) ==
    IF j > Len(tokens) THEN values
    ELSE MaskAllToNaN(MaskToNaN(values, original, tokens[j]), original, tokens, j + 1)

\* A string that is no number is made NaN.
AsFloatOrNaN(cell) ==
    IF cell.k # "str" THEN cell
    ELSE IF ParseFloat(cell.s) = NotAFloat THEN NaN
    ELSE ParseFloat(cell.s)

\* One cell of .astype(float): a float stays, a string is converted.
AsFloat(cell) == IF cell.k = "str" THEN ParseFloat(cell.s) ELSE cell

clean_column_numerical(frame, col) ==
    IF col \notin frame.columns THEN Raise("KeyError")
    ELSE LET blanked == MaskAllToNaN(Column(frame, col), Column(frame, col),
                                     NumericalBlanks, 1)
             floats == [r \in DOMAIN blanked |-> AsFloat(blanked[r])]
         IN  IF \E r \in DOMAIN floats : floats[r] = NotAFloat
             THEN Raise("ValueError")
             ELSE Return(floats)

\* The string is lower-cased and not stripped.
CleanStringWithoutStrip(cell) ==
    IF cell.k = "str" THEN Str(ReplaceQuote(Lower(cell.s))) ELSE cell

\* _clean_string(string)
CleanString(cell) ==
    IF cell.k = "str" THEN Str(ReplaceQuote(Strip(Lower(cell.s)))) ELSE cell

clean_column_categorical(frame, col) ==
    IF col \notin frame.columns THEN Raise("KeyError")
    ELSE LET applied == [r \in DOMAIN frame.rows |-> CleanString(frame.rows[r][col])]
         IN  Return(MaskToNaN(applied, Column(frame, col), <<NBSP>>))

(***************************************************************************)
(* clean_dataframe(df, machine, path_dictionary, cols)                     *)
(*                                                                         *)
(* df_dictionary is the sheet read from the Excel file: a record           *)
(* [columns, rows] with the set of its headers and, per `Computer name`,   *)
(* the cell of `Type mapping`, a string or NaN for an empty cell.  cols is *)
(* a record [none, names]: the argument None, or a list of column names.   *)
(***************************************************************************)
types_numerical ==
    << <<"i", "n", "t">>,
       <<"f", "l", "o", "a", "t">>,
       <<"i", "n", "t", " ", "(", "s", "c", "i", "e", "n", "t", "i", "f", "i", "c", " ",
         "n", "o", "t", "a", "t", "i", "o", "n", ")">> >>

\* The type string is not among the categorical ones.
types_categorical_without_string == << <<"s", "t", "r">> >>

types_categorical == << <<"s", "t", "r">>, <<"s", "t", "r", "i", "n", "g">> >>

\* df.columns, in the order of the DataFrame.
ColumnOrder == <<"hb", "sample_type", "_hb", "comment">>

ColumnsOf(frame) == SelectSeq(ColumnOrder, LAMBDA col : col \in frame.columns)

\* No dictionary has been read.
NoTypeDictionary == [columns |-> {}, rows |-> <<>>]

ColsNone == [none |-> TRUE, names |-> <<>>]

ColsList(names) == [none |-> FALSE, names |-> names]

\* col[0], the first character of a column name.
FirstChar(col) ==
    CASE col = "hb" -> "h"
      [] col = "sample_type" -> "s"
      [] col = "_hb" -> "_"
      [] col = "comment" -> "c"

\* str(cell): the string itself, 'nan' for NaN.
ToStr(cell) == IF cell.k = "str" THEN cell.s ELSE <<"n", "a", "n">>

\* df_clean[col] = series
SetColumn(frame, col, values) ==
    [frame EXCEPT !.rows = [r \in DOMAIN frame.rows |->
                               [frame.rows[r] EXCEPT ![col] = values[r]]]]

\* The body of `for col in cols`; frame is the df that was passed, every
\* column is cleaned from it.
RECURSIVE CleanLoop(_, _, _, _, _)
CleanLoop(frame, dictionary, frame_clean, names, j) ==
    IF j > Len(names) THEN Return(frame_clean)
    ELSE LET col == names[j]
         IN  IF FirstChar(col) = "_"
             THEN CleanLoop(frame, dictionary, frame_clean, names, j + 1)
             ELSE IF col \notin DOMAIN dictionary.rows THEN Raise("KeyError")
             ELSE LET col_type == Lower(ToStr(dictionary.rows[col]))
                  IN  IF col_type \in Range(types_numerical)
                      THEN LET cleaned == clean_column_numerical(frame, col)
                           IN  IF cleaned.raised # "none" THEN cleaned
                               ELSE CleanLoop(frame, dictionary,
                                              SetColumn(frame_clean, col, cleaned.value),
                                              names, j + 1)
                      ELSE IF col_type \in Range(types_categorical)
                      THEN LET cleaned == clean_column_categorical(frame, col)
                           IN  IF cleaned.raised # "none" THEN cleaned
                               ELSE CleanLoop(frame, dictionary,
                                              SetColumn(frame_clean, col, cleaned.value),
                                              names, j + 1)
                      ELSE CleanLoop(frame, dictionary, frame_clean, names, j + 1)

clean_dataframe(frame, dictionary, columns) ==
    IF ~({"Computer name", "Unit", "Type mapping"} \subseteq dictionary.columns)
    THEN Raise("KeyError")
    ELSE CleanLoop(frame, dictionary, frame,
                   IF columns.none THEN ColumnsOf(frame) ELSE columns.names, 1)

(***************************************************************************)
(* The inputs of the calls.                                                *)
(***************************************************************************)
\* The largest number of rows of a DataFrame.
MaxRows == 2

\* The values a cell of each column is drawn from: NaN and numbers below,
\* at and above the thresholds and bounds the column is compared with.
ColumnValues(col) ==
    CASE col = "neutrophil_size_mean" -> {NaN, Num(14, 1)}
      [] col = "neutrophil_size_mean_cv" ->
            {NaN, Num(-10, -1), Num(0, 0), Num(10, -15), Num(50, 0)}
      [] col = "lymphocyte_size_mean" -> {NaN, Num(10, 1)}
      [] col = "lymphocyte_intracellular_complexity_cv" -> {Num(0, 0), Num(50, 0)}
      [] col = "reticulocytes" -> {NaN, Num(99, -6), Num(10, -5)}
      [] col = "rbc_hypochromic_perc" -> {NaN, Num(0, 0), Num(10, -31), Num(99, -6)}
      [] col = "rbc_intracellular_complexity_cv" -> {Num(0, 0), Num(50, 0)}
      [] col = "glucose" ->
            {NaN, Num(-10, -1), Num(0, 0), Num(50, 0), Num(10, 1), Num(15, 1)}

\* The column sets of the DataFrames: instruments produce partial panels.
Panels ==
    { {},
      {"neutrophil_size_mean", "neutrophil_size_mean_cv"},
      {"lymphocyte_size_mean", "lymphocyte_intracellular_complexity_cv"},
      {"reticulocytes", "rbc_hypochromic_perc"},
      {"neutrophil_size_mean", "neutrophil_size_mean_cv", "rbc_intracellular_complexity_cv"},
      {"glucose"},
      {"glucose", "reticulocytes"} }

RowsOf(columns) == {row \in [columns -> UNION {ColumnValues(c) : c \in columns}] :
                        \A c \in columns : row[c] \in ColumnValues(c)}

Frames ==
    UNION { UNION { {[columns |-> columns, rows |-> rows] :
                        rows \in [1..n -> RowsOf(columns)]} : n \in 0..MaxRows } :
            columns \in Panels }

\* The (Min, Max) cells of a dictionary entry: numbers, the dash, a blank
\* cell (read as NaN) and other text.
BoundCells ==
    { <<Num(0, 0), Num(10, 1)>>,
      <<Dash, Num(10, 1)>>,
      <<Num(0, 0), Dash>>,
      <<NaN, Num(10, 1)>>,
      <<Num(0, 0), NaN>>,
      <<Text, Num(10, 1)>>,
      <<Num(0, 0), Text>> }

DictionaryNames == {"glucose", "neutrophil_size_mean_cv"}

DictionaryHeaders ==
    { {"Computer name", "Unit", "Min", "Max"},
      {"Computer name", "Unit", "Max"},
      {"Computer name", "Unit", "Min"},
      {"Unit", "Min", "Max"} }

NoDictionary == [columns |-> {}, rows |-> <<>>]

Dictionaries ==
    { [columns |-> {"Computer name", "Unit", "Min", "Max"},
       rows |-> [name \in names |-> [Min |-> cells[name][1], Max |-> cells[name][2]]]] :
          names \in SUBSET DictionaryNames, cells \in [DictionaryNames -> BoundCells] }
    \cup
    { [columns |-> headers,
       rows |-> [name \in {"glucose"} |-> [Min |-> Num(0, 0), Max |-> Num(10, 1)]]] :
          headers \in DictionaryHeaders }

QcNames ==
    { "wbc_scatter", "leuko_scatter", "rbc", "erythro", "rbc_scatter", "plausible_range",
      "flags", "suspicious_flags", "fail", "failure", "standard_values", "all",
      "not_a_real_rule", "_" }

QcPairNames ==
    { "wbc_scatter", "rbc", "rbc_scatter", "plausible_range", "flags", "all",
      "not_a_real_rule" }

QcTypes ==
    {TypesAll, TypesList(<<>>), TypesList(qc_types_default), TypesList(qc_types_possible)}
    \cup {TypesList(<<a>>) : a \in QcNames}
    \cup {TypesList(<<a, b>>) : a \in QcPairNames, b \in QcPairNames}

(***************************************************************************)
(* The state machine: a caller holds a DataFrame df and calls one of the   *)
(* functions of the package on it; the call returns df_qc or raises.       *)
(***************************************************************************)
Init ==
    /\ df \in Frames
    /\ df_data_dictionary = NoDictionary
    /\ qc_types = TypesList(<<>>)
    /\ called = "none"
    /\ df_qc = NoFrame
    /\ raised = "none"
    /\ skipped = <<>>
    /\ df_held = df
    /\ clean_col = ""
    /\ clean_cols = ColsNone
    /\ df_dictionary = NoTypeDictionary
    /\ series = <<>>
    /\ df_clean = NoFrame

\* One function skips the copy and works on its argument.
CopiesArgumentExceptRbc(function) == function # "qc_rbc"

\* `df_qc = df.copy()`, the first statement of each function: the name df_qc
\* is bound to a new object, not to the caller's.
CopiesArgument(function) ==
    function \in {"perform_qc", "qc_wbc_scatter", "qc_rbc", "qc_standard_values",
                  "qc_plausible_range"}

\* The cells of the caller's DataFrame object after the call.  The only
\* writes of the package are `df_qc.loc[mask, cols] = np.nan` in the three
\* nulling rules (perform_qc and qc_standard_values rebind the name df_qc
\* and write nothing): they reach the caller's object exactly when df_qc is
\* that object.
ArgumentAfter(function, frame, result) ==
    IF CopiesArgument(function) THEN frame
    ELSE IF /\ function \in {"qc_wbc_scatter", "qc_rbc", "qc_plausible_range"}
            /\ result.raised = "none"
    THEN result.value
    ELSE frame

\* df is the dataset as the caller passed it, df_held what the caller's
\* object holds once the call has ended.
Finish(name, result) ==
    /\ called' = name
    /\ df_qc' = result.value
    /\ raised' = result.raised
    /\ df_held' = ArgumentAfter(name, df, result)

CallWbcScatter ==
    /\ called = "none"
    /\ Finish("qc_wbc_scatter", Return(qc_wbc_scatter(df, threshold_wbc_scatter)))
    /\ UNCHANGED <<df, df_data_dictionary, qc_types, skipped, clean_vars>>

CallRbc ==
    /\ called = "none"
    /\ Finish("qc_rbc", Return(qc_rbc(df)))
    /\ UNCHANGED <<df, df_data_dictionary, qc_types, skipped, clean_vars>>

CallStandardValues ==
    /\ called = "none"
    /\ Finish("qc_standard_values", qc_standard_values(df))
    /\ UNCHANGED <<df, df_data_dictionary, qc_types, skipped, clean_vars>>

CallPlausibleRange ==
    /\ called = "none"
    /\ \E dictionary \in Dictionaries :
          /\ df_data_dictionary' = dictionary
          /\ Finish("qc_plausible_range", qc_plausible_range(df, dictionary))
    /\ UNCHANGED <<df, qc_types, skipped, clean_vars>>

CallPerformQc ==
    /\ called = "none"
    /\ \E types \in QcTypes :
          /\ qc_types' = types
          /\ Finish("perform_qc", perform_qc(df, types))
          /\ skipped' = perform_qc_skipped(df, types)
    /\ UNCHANGED <<df, df_data_dictionary, clean_vars>>

Next ==
    \/ CallWbcScatter
    \/ CallRbc
    \/ CallStandardValues
    \/ CallPlausibleRange
    \/ CallPerformQc

Spec == Init /\ [][Next]_vars

(***************************************************************************)
(* The inputs of the cleaning functions.                                   *)
(***************************************************************************)
\* The largest number of cells of a DataFrame of one column.
MaxCells == 4

\* The raw cells of each column, as an export of the instrument holds
\* them: numbers as text, blanks, the no-break space, text with capitals
\* and padding, floats and NaN.
RawColumnValues(col) ==
    CASE col = "hb" ->
            { Str(<<" ">>), Str(<<NBSP>>), Str(<<"n", "a", "n">>),
              Str(<<"3", ".", "1", "4">>), Str(<<"1", ",", "5">>), Num(42, 0), NaN }
      [] col = "sample_type" ->
            { Str(<<" ", "J", "o", "h", "n", RSQUO, "s", " ">>), Str(<<NBSP>>),
              Str(<<" ", NBSP>>), Str(<<"A", "B">>), Num(42, 0), NaN }
      [] col = "_hb" -> { Str(<<" ">>), Str(<<"3", ".", "1", "4">>) }
      [] col = "comment" -> { Str(<<"1", ",", "5">>), NaN }

RawFramesOf(panel, longest) ==
    { [columns |-> panel, rows |-> rows] :
        rows \in UNION { [1..n -> {row \in [panel -> UNION {RawColumnValues(col) : col \in panel}] :
                                      \A col \in panel : row[col] \in RawColumnValues(col)}] :
                         n \in 0..longest } }

RawFrames ==
    RawFramesOf({"hb"}, MaxCells) \cup RawFramesOf({"sample_type"}, MaxCells)
    \cup RawFramesOf({"hb", "_hb"}, MaxRows)
    \cup RawFramesOf({"sample_type", "comment"}, MaxRows)

TypeString(name) ==
    CASE name = "float" -> Str(<<"f", "l", "o", "a", "t">>)
      [] name = "Float" -> Str(<<"F", "l", "o", "a", "t">>)
      [] name = "int" -> Str(<<"i", "n", "t">>)
      [] name = "int (scientific notation)" -> Str(types_numerical[3])
      [] name = "str" -> Str(<<"s", "t", "r">>)
      [] name = "String" -> Str(<<"S", "t", "r", "i", "n", "g">>)
      [] name = "date" -> Str(<<"d", "a", "t", "e">>)
      [] name = "empty" -> NaN

TypeDictionary(headers, hb, sample_type) ==
    [columns |-> headers,
     rows |-> [name \in {"hb", "sample_type", "_hb"} |->
                  IF name = "sample_type" THEN TypeString(sample_type) ELSE TypeString(hb)]]

TypeDictionaries ==
    { TypeDictionary({"Computer name", "Unit", "Type mapping"}, pair[1], pair[2]) :
        pair \in { <<"float", "str">>, <<"Float", "String">>,
                   <<"int (scientific notation)", "date">>, <<"int", "empty">>,
                   <<"str", "float">>, <<"date", "str">> } }
    \cup { TypeDictionary({"Computer name", "Unit", "Type"}, "float", "str") }

ColsArguments(frame) == {ColsNone} \cup {ColsList(<<name>>) : name \in frame.columns}

(***************************************************************************)
(* The second state machine: a caller holds a raw DataFrame and calls one  *)
(* of the cleaning functions on it; the call returns a Series (series) or  *)
(* a DataFrame (df_clean), or raises.                                      *)
(***************************************************************************)
InitClean ==
    /\ df \in RawFrames
    /\ df_held = df
    /\ df_data_dictionary = NoDictionary
    /\ qc_types = TypesList(<<>>)
    /\ called = "none"
    /\ df_qc = NoFrame
    /\ raised = "none"
    /\ skipped = <<>>
    /\ clean_col = ""
    /\ clean_cols = ColsNone
    /\ df_dictionary = NoTypeDictionary
    /\ series = <<>>
    /\ df_clean = NoFrame

CallCleanColumnNumerical ==
    /\ called = "none"
    /\ \E name \in df.columns :
          LET result == clean_column_numerical(df, name)
          IN  /\ clean_col' = name
              /\ called' = "clean_column_numerical"
              /\ raised' = result.raised
              /\ series' = IF result.raised = "none" THEN result.value ELSE <<>>
    /\ UNCHANGED <<qc_vars, df, df_held, clean_cols, df_dictionary, df_clean>>

CallCleanColumnCategorical ==
    /\ called = "none"
    /\ \E name \in df.columns :
          LET result == clean_column_categorical(df, name)
          IN  /\ clean_col' = name
              /\ called' = "clean_column_categorical"
              /\ raised' = result.raised
              /\ series' = IF result.raised = "none" THEN result.value ELSE <<>>
    /\ UNCHANGED <<qc_vars, df, df_held, clean_cols, df_dictionary, df_clean>>

CallCleanDataframe ==
    /\ called = "none"
    /\ \E dictionary \in TypeDictionaries, columns \in ColsArguments(df) :
          LET result == clean_dataframe(df, dictionary, columns)
          IN  /\ df_dictionary' = dictionary
              /\ clean_cols' = columns
              /\ called' = "clean_dataframe"
              /\ raised' = result.raised
              /\ df_clean' = result.value
    /\ UNCHANGED <<qc_vars, df, df_held, clean_col, series>>

NextClean ==
    \/ CallCleanColumnNumerical
    \/ CallCleanColumnCategorical
    \/ CallCleanDataframe

SpecClean == InitClean /\ [][NextClean]_vars

(***************************************************************************)
(* The third state machine: a caller applies the nulling rules one after   *)
(* the other, in any order and any number of times, each to the dataset    *)
(* the rule before it returned.  df is the dataset the caller started      *)
(* from, df_qc what the last rule returned.                                *)
(***************************************************************************)
\* The dataset the next rule is applied to.
Current == IF called = "none" THEN df ELSE df_qc

ChainStep(name, result) ==
    /\ raised = "none"
    /\ called' = name
    /\ df_qc' = result.value
    /\ raised' = result.raised

ChainWbcScatter ==
    /\ ChainStep("qc_wbc_scatter", Return(qc_wbc_scatter(Current, threshold_wbc_scatter)))
    /\ UNCHANGED <<df, df_held, df_data_dictionary, qc_types, skipped, clean_vars>>

ChainRbc ==
    /\ ChainStep("qc_rbc", Return(qc_rbc(Current)))
    /\ UNCHANGED <<df, df_held, df_data_dictionary, qc_types, skipped, clean_vars>>

\* The dictionaries of a chain: bounds on both sides for a column of the
\* WBC rule and for glucose, a dash for "no lower bound", and a dictionary
\* qc_plausible_range rejects.
ChainDictionaries ==
    { [columns |-> {"Computer name", "Unit", "Min", "Max"},
       rows |-> [name \in DictionaryNames |-> [Min |-> cells[1], Max |-> cells[2]]]] :
          cells \in {<<Num(0, 0), Num(10, 1)>>, <<Dash, Num(10, 1)>>, <<Text, Num(10, 1)>>} }

ChainPlausibleRange ==
    /\ \E dictionary \in ChainDictionaries :
          /\ df_data_dictionary' = dictionary
          /\ ChainStep("qc_plausible_range", qc_plausible_range(Current, dictionary))
    /\ UNCHANGED <<df, df_held, qc_types, skipped, clean_vars>>

NextChain ==
    \/ ChainWbcScatter
    \/ ChainRbc
    \/ ChainPlausibleRange

SpecChain == Init /\ [][NextChain]_vars

(***************************************************************************)
(* Properties.                                                             *)
(***************************************************************************)
\* The 7 parameters of the WBC-scatter rule.
WbcScatterParameters ==
    { "neutrophil_size_mean", "neutrophil_intracellular_complexity",
      "neutrophil_lobularity_polarized", "neutrophil_lobularity_depolarized",
      "neutrophil_dna_staining", "lymphocyte_size_mean",
      "lymphocyte_intracellular_complexity" }

SameShape(a, b) == a.columns = b.columns /\ Len(a.rows) = Len(b.rows)

\* C1: after qc_wbc_scatter with the default threshold 1e-14, for each of the
\* 7 parameters P whose columns P and P_cv are both present and for every
\* row: if P_cv is strictly below the threshold, P and P_cv are both missing
\* in the result; otherwise (P_cv at or above the threshold) both keep their
\* value.
WbcScatterNullsPairBelowThreshold ==
    called = "qc_wbc_scatter" =>
        /\ raised = "none"
        /\ SameShape(df, df_qc)
        /\ \A P \in WbcScatterParameters :
              LET P_cv == P \o "_cv"
              IN  {P, P_cv} \subseteq df.columns =>
                     \A r \in DOMAIN df.rows :
                        IF Lt(df.rows[r][P_cv], Num(10, -15))
                        THEN df_qc.rows[r][P] = NaN /\ df_qc.rows[r][P_cv] = NaN
                        ELSE /\ df_qc.rows[r][P] = df.rows[r][P]
                             /\ df_qc.rows[r][P_cv] = df.rows[r][P_cv]

\* A row with neutrophil_size_mean_cv = 0.0 lost both cells, and a row with
\* neutrophil_size_mean_cv equal to the threshold kept both.
WbcScatterNullsPairWitness ==
    /\ called = "qc_wbc_scatter"
    /\ Len(df.rows) = 2
    /\ {"neutrophil_size_mean", "neutrophil_size_mean_cv"} \subseteq df.columns
    /\ df.rows[1]["neutrophil_size_mean_cv"] = Num(0, 0)
    /\ df.rows[1]["neutrophil_size_mean"] = Num(14, 1)
    /\ df_qc.rows[1]["neutrophil_size_mean_cv"] = NaN
    /\ df_qc.rows[1]["neutrophil_size_mean"] = NaN
    /\ df.rows[2]["neutrophil_size_mean_cv"] = Num(10, -15)
    /\ df_qc.rows[2]["neutrophil_size_mean_cv"] = Num(10, -15)
    /\ df_qc.rows[2]["neutrophil_size_mean"] = Num(14, 1)

\* C2: qc_wbc_scatter is idempotent: applied to its own result it returns
\* that result, cell for cell.
WbcScatterIdempotent ==
    called = "qc_wbc_scatter" =>
        qc_wbc_scatter(df_qc, threshold_wbc_scatter) = df_qc

\* The rule nulled the pair in both rows, and is applied again to that.
WbcScatterIdempotentWitness ==
    /\ called = "qc_wbc_scatter"
    /\ Len(df.rows) = 2
    /\ {"neutrophil_size_mean", "neutrophil_size_mean_cv"} \subseteq df.columns
    /\ \A r \in {1, 2} :
          /\ df.rows[r]["neutrophil_size_mean"] = Num(14, 1)
          /\ df.rows[r]["neutrophil_size_mean_cv"] \in {Num(0, 0), Num(-10, -1)}
          /\ df_qc.rows[r]["neutrophil_size_mean"] = NaN
          /\ df_qc.rows[r]["neutrophil_size_mean_cv"] = NaN

\* The 15 columns of the RBC rule.
RbcParameters ==
    { "reticulocytes", "reticulocytes_perc", "irf", "rbc_intracellular_complexity",
      "rbc_intracellular_complexity_cv", "rbc_population_position",
      "rbc_population_position_cv", "reticulocyte_population_position",
      "reticulocyte_population_position_cv", "mchcr", "mchr_nl", "mcvr", "hdw",
      "rbc_hypochromic_perc", "rbc_hyperchromic_perc" }

\* C3: after qc_rbc, for each of the 15 columns that is present and for
\* every row, the cell is missing if its value was strictly below the
\* threshold of its own column (1e-30 for rbc_hypochromic_perc and
\* rbc_hyperchromic_perc, 1e-4 for the other 13) and keeps its value
\* otherwise, whatever the other cells of the row hold.
RbcNullsCellBelowOwnThreshold ==
    called = "qc_rbc" =>
        /\ raised = "none"
        /\ SameShape(df, df_qc)
        /\ \A col \in RbcParameters \cap df.columns : \A r \in DOMAIN df.rows :
              LET limit == IF col \in {"rbc_hypochromic_perc", "rbc_hyperchromic_perc"}
                           THEN Num(10, -31)
                           ELSE Num(10, -5)
              IN  df_qc.rows[r][col] =
                     IF Lt(df.rows[r][col], limit) THEN NaN ELSE df.rows[r][col]

\* reticulocytes = 9.9e-5 became missing while rbc_hypochromic_perc = 9.9e-5
\* of the same row survived, and reticulocytes = 1e-4 survived.
RbcNullsCellWitness ==
    /\ called = "qc_rbc"
    /\ Len(df.rows) = 2
    /\ {"reticulocytes", "rbc_hypochromic_perc"} \subseteq df.columns
    /\ df.rows[1]["reticulocytes"] = Num(99, -6)
    /\ df.rows[1]["rbc_hypochromic_perc"] = Num(99, -6)
    /\ df_qc.rows[1]["reticulocytes"] = NaN
    /\ df_qc.rows[1]["rbc_hypochromic_perc"] = Num(99, -6)
    /\ df.rows[2]["reticulocytes"] = Num(10, -5)
    /\ df_qc.rows[2]["reticulocytes"] = Num(10, -5)

\* The dictionary has the three columns the rule needs.
HasBoundColumns(dictionary) == {"Computer name", "Min", "Max"} \subseteq dictionary.columns

\* C4: after qc_plausible_range, for every column of the dataset that has a
\* dictionary entry with a numeric Min and a numeric Max, and for every row,
\* the cell is missing if its value was strictly less than Min or strictly
\* greater than Max, and unchanged if Min <= value <= Max.
PlausibleRangeNullsOutside ==
    (called = "qc_plausible_range" /\ raised = "none") =>
        /\ SameShape(df, df_qc)
        /\ \A col \in df.columns \cap DOMAIN df_data_dictionary.rows :
              LET entry == df_data_dictionary.rows[col]
              IN  (entry.Min.k = "num" /\ entry.Max.k = "num") =>
                     \A r \in DOMAIN df.rows :
                        df_qc.rows[r][col] =
                           IF \/ Lt(df.rows[r][col], entry.Min)
                              \/ Lt(entry.Max, df.rows[r][col])
                           THEN NaN
                           ELSE df.rows[r][col]

\* With {Min 0, Max 100}: glucose = -1 became missing, glucose = 100 stayed.
PlausibleRangeNullsOutsideWitness ==
    /\ called = "qc_plausible_range"
    /\ raised = "none"
    /\ Len(df.rows) = 2
    /\ "glucose" \in df.columns
    /\ "glucose" \in DOMAIN df_data_dictionary.rows
    /\ df_data_dictionary.rows["glucose"] = [Min |-> Num(0, 0), Max |-> Num(10, 1)]
    /\ df.rows[1]["glucose"] = Num(-10, -1)
    /\ df_qc.rows[1]["glucose"] = NaN
    /\ df.rows[2]["glucose"] = Num(10, 1)
    /\ df_qc.rows[2]["glucose"] = Num(10, 1)

\* The placeholder of "no bound": a single dash, or a blank cell.
IsPlaceholder(cell) == cell = Dash \/ cell = NaN

\* C5: a Min or Max cell holding a dash or a blank means "no bound".  A
\* dictionary whose Min and Max cells are numbers or placeholders does not
\* make qc_plausible_range fail; for an entry with a placeholder, no cell of
\* that column is nulled on the placeholder's side, and the other side's
\* bound, if numeric, is still applied.
PlausibleRangePlaceholderIsNoBound ==
    ( /\ called = "qc_plausible_range"
      /\ HasBoundColumns(df_data_dictionary)
      /\ \A name \in DOMAIN df_data_dictionary.rows :
            LET entry == df_data_dictionary.rows[name]
            IN  /\ entry.Min.k = "num" \/ IsPlaceholder(entry.Min)
                /\ entry.Max.k = "num" \/ IsPlaceholder(entry.Max) ) =>
        /\ raised = "none"
        /\ SameShape(df, df_qc)
        /\ \A col \in df.columns \cap DOMAIN df_data_dictionary.rows :
              LET entry == df_data_dictionary.rows[col]
              IN  (IsPlaceholder(entry.Min) \/ IsPlaceholder(entry.Max)) =>
                     \A r \in DOMAIN df.rows :
                        df_qc.rows[r][col] =
                           IF \/ entry.Min.k = "num" /\ Lt(df.rows[r][col], entry.Min)
                              \/ entry.Max.k = "num" /\ Lt(entry.Max, df.rows[r][col])
                           THEN NaN
                           ELSE df.rows[r][col]

\* With {Min '-', Max 100}: glucose = -1 stayed and glucose = 150 became
\* missing.
PlausibleRangePlaceholderWitness ==
    /\ called = "qc_plausible_range"
    /\ raised = "none"
    /\ Len(df.rows) = 2
    /\ "glucose" \in df.columns
    /\ "glucose" \in DOMAIN df_data_dictionary.rows
    /\ df_data_dictionary.rows["glucose"] = [Min |-> Dash, Max |-> Num(10, 1)]
    /\ df.rows[1]["glucose"] = Num(-10, -1)
    /\ df_qc.rows[1]["glucose"] = Num(-10, -1)
    /\ df.rows[2]["glucose"] = Num(15, 1)
    /\ df_qc.rows[2]["glucose"] = NaN

\* C6 (as claimed): perform_qc called with an empty rule list fails with the
\* dedicated error EmptyRuleListError and returns no dataset.
PerformQcEmptyListRaisesEmptyRuleListError ==
    (called = "perform_qc" /\ qc_types = TypesList(<<>>)) =>
        raised = "EmptyRuleListError"

\* The rule names of the documented table of QC types.
DocumentedNames ==
    { "wbc_scatter", "leuko_scatter", "rbc", "erythro", "plausible_range", "flags",
      "suspicious_flags", "fail", "failure", "standard_values", "all" }

\* What the caller gets from the call that has just ended.
Outcome == [raised |-> raised, value |-> df_qc]

PerformQcResolvesSynonyms ==
    (called = "perform_qc" /\ ~qc_types.literal /\ Len(qc_types.names) = 1) =>
        /\ qc_types.names[1] \in {"wbc_scatter", "leuko_scatter"} =>
              Outcome = Return(qc_wbc_scatter(df, threshold_wbc_scatter))
        /\ qc_types.names[1] \in {"rbc", "erythro"} =>
              Outcome = Return(qc_rbc(df))

\* The rule each documented name selects; the names of the no-op rules
\* select the identity.
DocumentedRule(qc, frame) ==
    CASE qc \in {"wbc_scatter", "leuko_scatter"} -> qc_wbc_scatter(frame, threshold_wbc_scatter)
      [] qc \in {"rbc", "erythro"} -> qc_rbc(frame)
      [] OTHER -> frame

RECURSIVE DocumentedFold(_, _, _)
DocumentedFold(frame, names, j) ==
    IF j > Len(names) THEN frame
    ELSE DocumentedFold(DocumentedRule(names[j], frame), names, j + 1)

\* C9 (as claimed): for every list [r1, ..., rn] of recognized rule names,
\* perform_qc returns rule_rn(... rule_r1(d) ...), each rule consuming the
\* result of the one before it.  Stated for the names whose rule needs no
\* dictionary and removes no rows.
PerformQcIsFoldOfRules ==
    ( /\ called = "perform_qc"
      /\ ~qc_types.literal
      /\ qc_types.names # <<>>
      /\ Range(qc_types.names) \subseteq
            DocumentedNames \ {"all", "plausible_range", "standard_values"} ) =>
        Outcome = Return(DocumentedFold(df, qc_types.names, 1))

\* C10: when qc_types is the string "all" or a list holding the name "all",
\* perform_qc ends as it does for the list [wbc_scatter, rbc_scatter,
\* plausible_range, flags, fail, standard_values]: same dataset, or same
\* failure.
PerformQcAllIsTheFullList ==
    (called = "perform_qc" /\ (qc_types.literal \/ "all" \in Range(qc_types.names))) =>
        Outcome = perform_qc(df, TypesList(<<"wbc_scatter", "rbc_scatter", "plausible_range",
                                             "flags", "fail", "standard_values">>))

\* ["all", "flags"] ended as the full list does: with the TypeError of its
\* plausible_range step.
PerformQcAllWitness ==
    /\ called = "perform_qc"
    /\ qc_types = TypesList(<<"all", "flags">>)
    /\ raised = "TypeError"
    /\ Len(df.rows) = 1

\* C11 (as claimed): the name plausible_range makes perform_qc apply the
\* dictionary-driven rule and go on with the list, so perform_qc with the
\* default list [wbc_scatter, rbc_scatter, plausible_range, flags] ends
\* without raising and returns a dataset of the input's columns and rows.
PerformQcDefaultListCompletes ==
    (called = "perform_qc" /\ qc_types = TypesList(qc_types_default)) =>
        /\ raised = "none"
        /\ SameShape(df, df_qc)

\* C12 (as claimed): perform_qc recognizes flags, suspicious_flags, fail and
\* failure (it reports none of them as an invalid QC) and each is an
\* identity step: a list made only of these names returns a dataset equal to
\* the input, without an error.
PerformQcRecognizesNoOpNames ==
    ( /\ called = "perform_qc"
      /\ ~qc_types.literal
      /\ qc_types.names # <<>>
      /\ Range(qc_types.names) \subseteq {"flags", "suspicious_flags", "fail", "failure"} ) =>
        /\ Outcome = Return(df)
        /\ skipped = <<>>

\* The parameters qc_standard_values looks at.
StandardValueParameters == Range(cols_standard_values)

\* C13 (as claimed): each rule called on its own (qc_wbc_scatter, qc_rbc,
\* qc_plausible_range with a well-formed dictionary, qc_standard_values) is
\* resilient to absent columns: on a dataset that lacks parameters the rule
\* looks at, the call returns normally, with the columns and the number of
\* rows of the input for the three nulling rules and with the columns of
\* the input for qc_standard_values.
RulesAreResilientToAbsentColumns ==
    /\ ( /\ called \in {"qc_wbc_scatter", "qc_rbc"}
         /\ \E col \in WbcScatterParameters \cup RbcParameters : col \notin df.columns ) =>
            (raised = "none" /\ SameShape(df, df_qc))
    /\ ( /\ called = "qc_plausible_range"
         /\ HasBoundColumns(df_data_dictionary)
         /\ CastsToFloat(df_data_dictionary, "Min")
         /\ CastsToFloat(df_data_dictionary, "Max")
         /\ \E name \in DOMAIN df_data_dictionary.rows : name \notin df.columns ) =>
            (raised = "none" /\ SameShape(df, df_qc))
    /\ ( /\ called = "qc_standard_values"
         /\ \E col \in StandardValueParameters : col \notin df.columns ) =>
            (raised = "none" /\ df_qc.columns = df.columns)

\* The values of the dict cols_standard_values: the constant each mapped
\* parameter holds in a valid measurement.
StandardValue(col) ==
    CASE col = "rbc_intracellular_complexity" -> Num(182, 0)
      [] col = "rbc_population_position" -> Num(85, 0)
      [] col = "neutrophil_size_mean" -> Num(14, 1)
      [] col = "neutrophil_intracellular_complexity" -> Num(15, 1)
      [] col = "neutrophil_lobularity_polarized" -> Num(125, 0)
      [] col = "neutrophil_lobularity_depolarized" -> Num(28, 0)
      [] col = "neutrophil_dna_staining" -> Num(69, 0)
      [] col = "lymphocyte_size_mean" -> Num(10, 1)
      [] col = "lymphocyte_intracellular_complexity" -> Num(75, 0)
      [] col = "hb_nl" -> Num(6206, -24)
      [] col = "mch_usa" -> Num(6206, -4)
      [] col = "mchc_usa" -> Num(6206, -4)
      [] col = "rbc_intracellular_complexity_cv" -> Num(159341, -5)
      [] col = "rbc_population_position_cv" -> Num(72, -1)

\* A row that holds, in every mapped parameter the dataset has, the
\* expected constant.
HasStandardValues(frame, row) ==
    \A col \in StandardValueParameters \cap frame.columns :
        Eq(row[col], StandardValue(col))

\* C14 (as claimed): the result of qc_standard_values holds exactly the rows
\* of the input that, for every one of the 14 mapped parameters present in
\* the dataset, hold the expected constant, in the input's order and with
\* every cell unchanged; the other rows are removed.
StandardValuesKeepsMatchingRows ==
    called = "qc_standard_values" =>
        Outcome = Return([columns |-> df.columns,
                          rows |-> SelectSeq(df.rows,
                                             LAMBDA row : HasStandardValues(df, row))])

\* C15: whenever the data dictionary lacks one of the columns
\* `Computer name`, `Min`, `Max`, qc_plausible_range fails with the error it
\* raises for a malformed dictionary; it returns no dataset, not even a
\* partly nulled one, and the caller's dataset holds the cells it held.
PlausibleRangeRejectsDictionaryWithoutColumns ==
    (called = "qc_plausible_range" /\ ~HasBoundColumns(df_data_dictionary)) =>
        /\ raised = "Exception"
        /\ df_qc = NoFrame
        /\ df_held = df

\* A dictionary without the column Min, with the bounds 0..100 for glucose
\* in its rows, and a dataset whose glucose cell 150 is above Max: the call
\* raised and nulled nothing.
PlausibleRangeRejectsDictionaryWitness ==
    /\ called = "qc_plausible_range"
    /\ df_data_dictionary.columns = {"Computer name", "Unit", "Max"}
    /\ "glucose" \in DOMAIN df_data_dictionary.rows
    /\ df.columns = {"glucose"}
    /\ Len(df.rows) = 1
    /\ df.rows[1]["glucose"] = Num(15, 1)
    /\ raised = "Exception"
    /\ df_held.rows[1]["glucose"] = Num(15, 1)

\* A dictionary with a Min or Max cell that is text and not the dash.
HasTextBound(dictionary) ==
    \E name \in DOMAIN dictionary.rows :
        dictionary.rows[name]["Min"].k = "text" \/ dictionary.rows[name]["Max"].k = "text"

\* C16: a Min or Max cell that is neither a number nor the dash is fatal to
\* qc_plausible_range: the call fails with the conversion's ValueError
\* before any cell is nulled (no dataset comes back, the caller's dataset
\* holds the cells it held), whichever columns the dataset has.
PlausibleRangeRejectsTextBound ==
    ( /\ called = "qc_plausible_range"
      /\ HasBoundColumns(df_data_dictionary)
      /\ HasTextBound(df_data_dictionary) ) =>
        /\ raised = "ValueError"
        /\ df_qc = NoFrame
        /\ df_held = df

\* The Min of glucose is text; the dataset holds no glucose column, only
\* neutrophil_size_mean_cv with a cell below the Min 0 of its own, well
\* formed, entry: the call raised all the same.
PlausibleRangeRejectsTextBoundWitness ==
    /\ called = "qc_plausible_range"
    /\ HasBoundColumns(df_data_dictionary)
    /\ DOMAIN df_data_dictionary.rows = {"glucose", "neutrophil_size_mean_cv"}
    /\ df_data_dictionary.rows["glucose"] = [Min |-> Text, Max |-> Num(10, 1)]
    /\ df_data_dictionary.rows["neutrophil_size_mean_cv"] = [Min |-> Num(0, 0), Max |-> Num(10, 1)]
    /\ df.columns = {"neutrophil_size_mean", "neutrophil_size_mean_cv"}
    /\ Len(df.rows) = 1
    /\ df.rows[1]["neutrophil_size_mean_cv"] = Num(-10, -1)
    /\ raised = "ValueError"
    /\ df_held = df

IsNumericalBlank(cell) ==
    cell \in {Str(<<" ">>), Str(<<NBSP>>), Str(<<"n", "a", "n">>)}

\* A cell that holds a number already, or a string that spells one.
Parses(cell) == cell.k # "str" \/ ParseFloat(cell.s) # NotAFloat

\* C18: clean_column_numerical, on a column each of whose cells is the
\* blank " ", the artifact "\xa0", the text "nan" or parses as a number,
\* returns a column of the same length in which every blank, artifact and
\* "nan" cell is missing and every other cell is its numeric value: the
\* text "3.14" is the number 3.14, a number is itself.
CleanColumnNumericalCoerces ==
    ( /\ called = "clean_column_numerical"
      /\ \A r \in DOMAIN df.rows :
            IsNumericalBlank(df.rows[r][clean_col]) \/ Parses(df.rows[r][clean_col]) ) =>
        /\ raised = "none"
        /\ Len(series) = Len(df.rows)
        /\ \A r \in DOMAIN df.rows :
              LET cell == df.rows[r][clean_col]
              IN  /\ IsNumericalBlank(cell) => series[r] = NaN
                  /\ cell = Str(<<"3", ".", "1", "4">>) => series[r] = Num(314, -2)
                  /\ cell.k = "num" => series[r] = cell
                  /\ (~IsNumericalBlank(cell) /\ cell.k = "str") =>
                        series[r] = ParseFloat(cell.s)

\* The column [" ", "\xa0", "nan", "3.14"] came back as
\* [missing, missing, missing, 3.14].
CleanColumnNumericalWitness ==
    /\ called = "clean_column_numerical"
    /\ clean_col = "hb"
    /\ Column(df, "hb") = << Str(<<" ">>), Str(<<NBSP>>), Str(<<"n", "a", "n">>),
                             Str(<<"3", ".", "1", "4">>) >>
    /\ raised = "none"
    /\ series = <<NaN, NaN, NaN, Num(314, -2)>>

\* A cell clean_column_numerical can neither blank nor parse.
IsUnparsable(cell) == ~IsNumericalBlank(cell) /\ ~Parses(cell)

\* The columns clean_dataframe was asked to clean.
CleanedNames == IF clean_cols.none THEN ColumnsOf(df) ELSE clean_cols.names

\* The declared type of a column is one of the numerical ones.
IsDeclaredNumerical(name) ==
    /\ name \in DOMAIN df_dictionary.rows
    /\ Lower(ToStr(df_dictionary.rows[name])) \in Range(types_numerical)

\* C19: clean_column_numerical fails with the conversion's ValueError, and
\* returns no column, whenever a cell that is not the blank, the artifact
\* or "nan" cannot be parsed as a number; clean_dataframe, given a
\* dictionary that has the three columns it selects and an entry for every
\* column it cleans, passes that failure on to its caller, and returns no
\* DataFrame, when a column it cleans as numerical holds such a cell.
CleanColumnNumericalRaisesOnUnparsable ==
    /\ ( /\ called = "clean_column_numerical"
         /\ \E r \in DOMAIN df.rows : IsUnparsable(df.rows[r][clean_col]) ) =>
            (raised = "ValueError" /\ series = <<>>)
    /\ ( /\ called = "clean_dataframe"
         /\ {"Computer name", "Unit", "Type mapping"} \subseteq df_dictionary.columns
         /\ \A name \in Range(CleanedNames) :
               FirstChar(name) = "_" \/ name \in DOMAIN df_dictionary.rows
         /\ \E name \in Range(CleanedNames) :
               /\ FirstChar(name) # "_"
               /\ IsDeclaredNumerical(name)
               /\ \E r \in DOMAIN df.rows : IsUnparsable(df.rows[r][name]) ) =>
            (raised = "ValueError" /\ df_clean = NoFrame)

\* clean_dataframe cleaned the column hb, declared Float, whose second cell
\* "1,5" is no number: the ValueError reached the caller.
CleanColumnNumericalRaisesWitness ==
    /\ called = "clean_dataframe"
    /\ clean_cols = ColsNone
    /\ df.columns = {"hb"}
    /\ Column(df, "hb") = << Str(<<"3", ".", "1", "4">>), Str(<<"1", ",", "5">>) >>
    /\ df_dictionary.rows["hb"] = Str(<<"F", "l", "o", "a", "t">>)
    /\ raised = "ValueError"
    /\ df_clean = NoFrame

\* C20: clean_column_categorical returns a column of the same length in
\* which a cell equal to the artifact "\xa0" is missing, every other string
\* cell is the string lower-cased, without its leading and trailing
\* whitespace and with ' for each right single quote (" John" U+2019 "s "
\* becomes "john's"), and every cell that is no string, a missing one
\* included, is the cell of the input.
CleanColumnCategoricalCleansStrings ==
    called = "clean_column_categorical" =>
        /\ raised = "none"
        /\ Len(series) = Len(df.rows)
        /\ \A r \in DOMAIN df.rows :
              LET cell == df.rows[r][clean_col]
              IN  /\ cell = Str(<<NBSP>>) => series[r] = NaN
                  /\ cell = Str(<<" ", "J", "o", "h", "n", RSQUO, "s", " ">>) =>
                        series[r] = Str(<<"j", "o", "h", "n", "'", "s">>)
                  /\ (cell.k = "str" /\ cell # Str(<<NBSP>>)) =>
                        /\ series[r] = Str(ReplaceQuote(Strip(Lower(cell.s))))
                        /\ \A j \in DOMAIN series[r].s :
                              /\ LowerChar(series[r].s[j]) = series[r].s[j]
                              /\ series[r].s[j] # RSQUO
                        /\ series[r].s # <<>> =>
                              /\ ~IsSpace(Head(series[r].s))
                              /\ ~IsSpace(series[r].s[Len(series[r].s)])
                  /\ cell.k # "str" => series[r] = cell

\* The column [" John" U+2019 "s ", "\xa0", 42, missing] came back as
\* ["john's", missing, 42, missing].
CleanColumnCategoricalWitness ==
    /\ called = "clean_column_categorical"
    /\ clean_col = "sample_type"
    /\ Column(df, "sample_type") =
          << Str(<<" ", "J", "o", "h", "n", RSQUO, "s", " ">>), Str(<<NBSP>>), Num(42, 0), NaN >>
    /\ raised = "none"
    /\ series = << Str(<<"j", "o", "h", "n", "'", "s">>), NaN, Num(42, 0), NaN >>

\* The dictionary clean_dataframe read has the three columns it selects.
HasTypeColumns == {"Computer name", "Unit", "Type mapping"} \subseteq df_dictionary.columns

\* The declared types of the model's dictionaries, by the coercion the
\* documentation gives them, whatever their case.
DeclaredNumerical ==
    { TypeString("float"), TypeString("Float"), TypeString("int"),
      TypeString("int (scientific notation)") }

DeclaredCategorical == { TypeString("str"), TypeString("String") }

CleanDataframeExemptsColumnsWithoutEntry ==
    ( /\ called = "clean_dataframe"
      /\ HasTypeColumns
      /\ \E name \in Range(CleanedNames) :
            FirstChar(name) # "_" /\ name \notin DOMAIN df_dictionary.rows
      /\ \A name \in Range(CleanedNames) :
            (FirstChar(name) # "_" /\ name \in DOMAIN df_dictionary.rows) =>
               ( \/ df_dictionary.rows[name] \notin DeclaredNumerical
                 \/ \A r \in DOMAIN df.rows : ~IsUnparsable(df.rows[r][name]) ) ) =>
        /\ raised = "none"
        /\ \A name \in Range(CleanedNames) :
              name \notin DOMAIN df_dictionary.rows =>
                 Column(df_clean, name) = Column(df, name)

(***************************************************************************)
(* Properties of sequences of rules (Spec)                                 *)
(***************************************************************************)
\* The cell of row r and column col fails the predicate of the WBC-scatter
\* rule: col is a parameter P or its P_cv, both columns are present, and
\* P_cv is below 1e-14 in that row.
WbcFails(frame, r, col) ==
    \E P \in WbcScatterParameters :
        /\ col \in {P, P \o "_cv"}
        /\ {P, P \o "_cv"} \subseteq frame.columns
        /\ Lt(frame.rows[r][P \o "_cv"], Num(10, -15))

\* ... of the RBC rule: col is one of its 15 columns and the cell is below
\* the threshold of that column.
RbcFails(frame, r, col) ==
    /\ col \in RbcParameters
    /\ Lt(frame.rows[r][col],
          IF col \in {"rbc_hypochromic_perc", "rbc_hyperchromic_perc"}
          THEN Num(10, -31)
          ELSE Num(10, -5))

\* ... of the plausible-range rule: col has a dictionary entry and the cell
\* is below its numeric Min or above its numeric Max.
RangeFails(frame, dictionary, r, col) ==
    /\ col \in DOMAIN dictionary.rows
    /\ \/ dictionary.rows[col].Min.k = "num" /\ Lt(frame.rows[r][col], dictionary.rows[col].Min)
       \/ dictionary.rows[col].Max.k = "num" /\ Lt(dictionary.rows[col].Max, frame.rows[r][col])

\* The frame in which exactly the cells that fail are missing.
Nulled(frame, fails(_, _)) ==
    [frame EXCEPT !.rows = [r \in DOMAIN frame.rows |->
                               [col \in frame.columns |->
                                   IF fails(r, col) THEN NaN ELSE frame.rows[r][col]]]]

\* C23: qc_wbc_scatter, qc_rbc and (when it returns) qc_plausible_range keep
\* the columns, the rows and the row order of the input, and copy every cell
\* that does not fail the rule's predicate: the columns outside the rule's
\* list, a WBC parameter without its P_cv, a column absent from the
\* dictionary are all copied whole.
NullingRulesKeepTheFrame ==
    /\ called = "qc_wbc_scatter" =>
          df_qc = Nulled(df, LAMBDA r, col : WbcFails(df, r, col))
    /\ called = "qc_rbc" =>
          df_qc = Nulled(df, LAMBDA r, col : RbcFails(df, r, col))
    /\ (called = "qc_plausible_range" /\ raised = "none") =>
          df_qc = Nulled(df, LAMBDA r, col : RangeFails(df, df_data_dictionary, r, col))
    /\ (called \in {"qc_wbc_scatter", "qc_rbc", "qc_plausible_range"} /\ raised = "none") =>
          /\ SameShape(df, df_qc)
          /\ \A r \in DOMAIN df.rows : \A col \in df.columns :
                \/ df_qc.rows[r][col] = df.rows[r][col]
                \/ df_qc.rows[r][col] = NaN
          /\ \A col \in df.columns :
                ( \/ called = "qc_wbc_scatter" /\
                        \A P \in WbcScatterParameters :
                           col \in {P, P \o "_cv"} => ~({P, P \o "_cv"} \subseteq df.columns)
                  \/ called = "qc_rbc" /\ col \notin RbcParameters
                  \/ called = "qc_plausible_range" /\ col \notin DOMAIN df_data_dictionary.rows ) =>
                   \A r \in DOMAIN df.rows : df_qc.rows[r][col] = df.rows[r][col]

\* qc_wbc_scatter nulled the pair of the first row and copied the pair of
\* the second row and the whole column rbc_intracellular_complexity_cv, a
\* column of the RBC rule with a cell below that rule's threshold.
NullingRulesKeepTheFrameWitness ==
    /\ called = "qc_wbc_scatter"
    /\ df.columns = {"neutrophil_size_mean", "neutrophil_size_mean_cv",
                     "rbc_intracellular_complexity_cv"}
    /\ Len(df.rows) = 2
    /\ df.rows[1] = [neutrophil_size_mean |-> Num(14, 1), neutrophil_size_mean_cv |-> Num(0, 0),
                     rbc_intracellular_complexity_cv |-> Num(0, 0)]
    /\ df.rows[2] = [neutrophil_size_mean |-> Num(14, 1), neutrophil_size_mean_cv |-> Num(50, 0),
                     rbc_intracellular_complexity_cv |-> Num(50, 0)]
    /\ df_qc.rows[1] = [neutrophil_size_mean |-> NaN, neutrophil_size_mean_cv |-> NaN,
                        rbc_intracellular_complexity_cv |-> Num(0, 0)]
    /\ df_qc.rows[2] = df.rows[2]

\* C24: along any sequence of applications of qc_wbc_scatter, qc_rbc and
\* qc_plausible_range, each to the result of the one before: a cell that is
\* missing before a rule is missing after it, and a cell that is not
\* missing after it holds the value the caller's dataset had at the start;
\* the columns and the number of rows never change.
MissingPropagatesAlongRules ==
    [][ (raised' = "none" /\ called' # "none") =>
           /\ SameShape(df, df_qc')
           /\ \A r \in DOMAIN df.rows : \A col \in df.columns :
                 /\ Current.rows[r][col] = NaN => df_qc'.rows[r][col] = NaN
                 /\ df_qc'.rows[r][col] # NaN => df_qc'.rows[r][col] = df.rows[r][col] ]_vars

\* qc_rbc was the last rule of a sequence that held qc_wbc_scatter before
\* it: the pair the WBC rule nulled is still missing, the RBC cell below
\* 1e-4 is missing too, and the second row holds the input's values.
MissingPropagatesWitness ==
    /\ called = "qc_rbc"
    /\ df.columns = {"neutrophil_size_mean", "neutrophil_size_mean_cv",
                     "rbc_intracellular_complexity_cv"}
    /\ Len(df.rows) = 2
    /\ df.rows[1] = [neutrophil_size_mean |-> Num(14, 1), neutrophil_size_mean_cv |-> Num(0, 0),
                     rbc_intracellular_complexity_cv |-> Num(0, 0)]
    /\ df.rows[2] = [neutrophil_size_mean |-> Num(14, 1), neutrophil_size_mean_cv |-> Num(50, 0),
                     rbc_intracellular_complexity_cv |-> Num(50, 0)]
    /\ df_qc.rows[1] = [neutrophil_size_mean |-> NaN, neutrophil_size_mean_cv |-> NaN,
                        rbc_intracellular_complexity_cv |-> NaN]
    /\ df_qc.rows[2] = df.rows[2]

\* C25: the order of qc_plausible_range and qc_wbc_scatter matters.  For
\* every dataset and dictionary with a pair P, P_cv in the dataset, an entry
\* for P_cv and none for P, and a row whose P is not missing and whose P_cv
\* is below 1e-14 and outside its plausible range, the range rule followed
\* by the WBC rule returns another dataset than the WBC rule followed by
\* the range rule: the range rule nulls P_cv first, and P is then kept.
RangeAndWbcScatterDoNotCommute ==
    ( /\ called = "qc_plausible_range"
      /\ raised = "none"
      /\ \E P \in WbcScatterParameters : \E r \in DOMAIN df.rows :
            /\ {P, P \o "_cv"} \subseteq df.columns
            /\ P \notin DOMAIN df_data_dictionary.rows
            /\ df.rows[r][P] # NaN
            /\ Lt(df.rows[r][P \o "_cv"], Num(10, -15))
            /\ RangeFails(df, df_data_dictionary, r, P \o "_cv") ) =>
        qc_wbc_scatter(df_qc, threshold_wbc_scatter) #
           qc_plausible_range(qc_wbc_scatter(df, threshold_wbc_scatter),
                              df_data_dictionary).value

\* neutrophil_size_mean_cv = -1 is below its Min 0: the range rule nulled
\* it and left neutrophil_size_mean = 140, which the WBC rule applied first
\* would have nulled with it.
RangeAndWbcScatterWitness ==
    /\ called = "qc_plausible_range"
    /\ raised = "none"
    /\ df.columns = {"neutrophil_size_mean", "neutrophil_size_mean_cv"}
    /\ Len(df.rows) = 1
    /\ DOMAIN df_data_dictionary.rows = {"neutrophil_size_mean_cv"}
    /\ df_data_dictionary.rows["neutrophil_size_mean_cv"] = [Min |-> Num(0, 0), Max |-> Num(10, 1)]
    /\ df.rows[1] = [neutrophil_size_mean |-> Num(14, 1), neutrophil_size_mean_cv |-> Num(-10, -1)]
    /\ df_qc.rows[1] = [neutrophil_size_mean |-> Num(14, 1), neutrophil_size_mean_cv |-> NaN]
    /\ qc_wbc_scatter(df_qc, threshold_wbc_scatter) = df_qc
    /\ qc_wbc_scatter(df, threshold_wbc_scatter).rows[1] =
          [neutrophil_size_mean |-> NaN, neutrophil_size_mean_cv |-> NaN]

WbcScatterAndRbcCommute ==
    /\ RbcParameters \cap (WbcScatterParameters \cup {P \o "_cv" : P \in WbcScatterParameters}) = {}
    /\ called = "qc_wbc_scatter" =>
          qc_rbc(df_qc) = qc_wbc_scatter(qc_rbc(df), threshold_wbc_scatter)
    /\ called = "qc_rbc" =>
          qc_wbc_scatter(df_qc, threshold_wbc_scatter) =
             qc_rbc(qc_wbc_scatter(df, threshold_wbc_scatter))

\* qc_wbc_scatter nulled the pair of a row whose RBC cell is below 1e-4:
\* both rules have cells to null, and either order nulls all three.
WbcScatterAndRbcCommuteWitness ==
    /\ called = "qc_wbc_scatter"
    /\ df.columns = {"neutrophil_size_mean", "neutrophil_size_mean_cv",
                     "rbc_intracellular_complexity_cv"}
    /\ Len(df.rows) = 1
    /\ df.rows[1] = [neutrophil_size_mean |-> Num(14, 1), neutrophil_size_mean_cv |-> Num(0, 0),
                     rbc_intracellular_complexity_cv |-> Num(0, 0)]
    /\ df_qc.rows[1] = [neutrophil_size_mean |-> NaN, neutrophil_size_mean_cv |-> NaN,
                        rbc_intracellular_complexity_cv |-> Num(0, 0)]
    /\ qc_rbc(df_qc).rows[1] = [neutrophil_size_mean |-> NaN, neutrophil_size_mean_cv |-> NaN,
                                rbc_intracellular_complexity_cv |-> NaN]

\* C28: qc_rbc is idempotent, and qc_plausible_range with a fixed dictionary
\* is idempotent: applying the rule to its own result changes nothing,
\* qc_rbc(qc_rbc(d)) = qc_rbc(d) and
\* qc_plausible_range(qc_plausible_range(d, D), D) = qc_plausible_range(d, D).
RbcAndPlausibleRangeAreIdempotent ==
    /\ called = "qc_rbc" => qc_rbc(df_qc) = df_qc
    /\ (called = "qc_plausible_range" /\ raised = "none") =>
          qc_plausible_range(df_qc, df_data_dictionary) = Return(df_qc)

\* qc_rbc nulled both rows of an RBC column; a second pass finds nothing
\* below the threshold.
RbcAndPlausibleRangeWitness ==
    /\ called = "qc_rbc"
    /\ Len(df.rows) = 2
    /\ "rbc_intracellular_complexity_cv" \in df.columns
    /\ \A r \in 1..2 : df.rows[r]["rbc_intracellular_complexity_cv"] = Num(0, 0)
    /\ \A r \in 1..2 : df_qc.rows[r]["rbc_intracellular_complexity_cv"] = NaN
    /\ qc_rbc(df_qc) = df_qc

\* qc_plausible_range nulled a cell outside the range of its column and kept
\* one inside it; a second pass with the same dictionary returns the same.
PlausibleRangeIdempotentWitness ==
    /\ called = "qc_plausible_range"
    /\ raised = "none"
    /\ \E col \in df.columns \cap DOMAIN df_data_dictionary.rows :
          /\ \E r \in DOMAIN df.rows : df.rows[r][col].k = "num" /\ df_qc.rows[r][col] = NaN
          /\ \E r \in DOMAIN df.rows : df_qc.rows[r][col].k = "num"
    /\ qc_plausible_range(df_qc, df_data_dictionary) = Return(df_qc)

====
